---- MODULE Spec2Model ----
(***************************************************************************)
(* Fitness tracker (src/homework.py, src/oop_refactor.py): the Training    *)
(* calculators, the read_package factory, the InfoMessage reporter and the *)
(* two batch drivers.                                                      *)
(*                                                                         *)
(* Python numbers are modelled as they are computed.  A Python int is a    *)
(* TLA+ integer.  A Python float is an IEEE-754 binary64 value, kept as    *)
(* the record [m |-> mantissa, e |-> exponent] of value m * 2^e, where m   *)
(* is a natural number of exactly 53 bits (2^52 <= m < 2^53) written as a  *)
(* little-endian sequence of base-2^15 digits ("limbs"), and 0.0 is        *)
(* [m |-> <<>>, e |-> 0].  Every float operation computes the exact        *)
(* result and rounds it once, to nearest with ties to even, as the         *)
(* hardware does.  All values of the model are non-negative and far from   *)
(* the overflow and subnormal ranges, so no sign, infinity or NaN is kept. *)
(*                                                                         *)
(* The Cyrillic literals of the source are written in Latin                *)
(* transliteration, since a module is ASCII text.                          *)
(***************************************************************************)
EXTENDS Integers, Sequences, FiniteSets, TLC

(***************************************************************************)
(* Natural numbers of any size: little-endian sequences of limbs in        *)
(* 0..Base-1 without leading (most significant) zero limbs; 0 is <<>>.     *)
(***************************************************************************)
LimbBits == 15
Base == 2^LimbBits

\* The operands of an arithmetic operator are evaluated before the operator
\* is applied, as Python does: Val(S) is the one element of the singleton S.
Val(S) == CHOOSE v \in S : TRUE

Max(x, y) == IF x >= y THEN x ELSE y
Min(x, y) == IF x <= y THEN x ELSE y

RECURSIVE BNorm(_)
BNorm(a) ==
  IF a = <<>> THEN a
  ELSE IF a[Len(a)] = 0 THEN BNorm(SubSeq(a, 1, Len(a) - 1)) ELSE a

RECURSIVE BFromInt(_)
BFromInt(n) == IF n = 0 THEN <<>> ELSE <<n % Base>> \o BFromInt(n \div Base)

RECURSIVE BToInt(_)
BToInt(a) == IF a = <<>> THEN 0 ELSE a[1] + Base * BToInt(Tail(a))

RECURSIVE BAddC(_, _, _)
BAddC(a, b, c) ==
  IF a = <<>> /\ b = <<>> THEN (IF c = 0 THEN <<>> ELSE <<c>>)
  ELSE LET x == IF a = <<>> THEN 0 ELSE a[1]
           y == IF b = <<>> THEN 0 ELSE b[1]
           s == x + y + c
       IN  <<s % Base>> \o BAddC(IF a = <<>> THEN a ELSE Tail(a),
                                 IF b = <<>> THEN b ELSE Tail(b),
                                 s \div Base)
BAdd(a, b) == BAddC(a, b, 0)

\* a - b for a >= b
RECURSIVE BSubC(_, _, _)
BSubC(a, b, c) ==
  IF a = <<>> THEN <<>>
  ELSE LET y == IF b = <<>> THEN 0 ELSE b[1]
           s == a[1] - y - c
       IN  <<(s + Base) % Base>> \o BSubC(Tail(a),
                                          IF b = <<>> THEN b ELSE Tail(b),
                                          IF s < 0 THEN 1 ELSE 0)
BSub(a, b) == BNorm(BSubC(a, b, 0))

\* -1, 0, 1 as a < b, a = b, a > b
RECURSIVE BCmpTop(_, _, _)
BCmpTop(a, b, i) ==
  IF i = 0 THEN 0
  ELSE IF a[i] < b[i] THEN -1
  ELSE IF a[i] > b[i] THEN 1
  ELSE BCmpTop(a, b, i - 1)
BCmp(a, b) ==
  IF Len(a) < Len(b) THEN -1
  ELSE IF Len(a) > Len(b) THEN 1
  ELSE BCmpTop(a, b, Len(a))

\* a * k + c for 0 <= k < Base, 0 <= c < Base
RECURSIVE BMulSmallC(_, _, _)
BMulSmallC(a, k, c) ==
  IF a = <<>> THEN (IF c = 0 THEN <<>> ELSE <<c>>)
  ELSE LET s == a[1] * k + c
       IN  <<s % Base>> \o BMulSmallC(Tail(a), k, s \div Base)
BMulSmall(a, k) == BNorm(BMulSmallC(a, k, 0))

RECURSIVE BMul(_, _)
BMul(a, b) ==
  IF a = <<>> \/ b = <<>> THEN <<>>
  ELSE BAdd(BMulSmall(a, b[1]), BNorm(<<0>> \o BMul(a, Tail(b))))

\* quotient and remainder of a by k, 0 < k <= Base
RECURSIVE BDivSmall(_, _)
BDivSmall(a, k) ==
  IF a = <<>> THEN [q |-> <<>>, r |-> 0]
  ELSE LET hi  == BDivSmall(Tail(a), k)
           cur == hi.r * Base + a[1]
       IN  [q |-> <<cur \div k>> \o hi.q, r |-> cur % k]

Zeros(n) == [i \in 1..n |-> 0]

\* a * 2^n
BShl(a, n) ==
  IF a = <<>> THEN a
  ELSE BMulSmall(Zeros(n \div LimbBits) \o a, 2^(n % LimbBits))

\* a \div 2^n
BShr(a, n) ==
  IF Len(a) <= n \div LimbBits THEN <<>>
  ELSE BNorm(BDivSmall(SubSeq(a, (n \div LimbBits) + 1, Len(a)),
                       2^(n % LimbBits)).q)

\* a % 2^n
BLow(a, n) == BSub(a, BShl(BShr(a, n), n))

RECURSIVE BitLenSmall(_)
BitLenSmall(x) == IF x = 0 THEN 0 ELSE 1 + BitLenSmall(x \div 2)
BBitLen(a) ==
  IF a = <<>> THEN 0 ELSE LimbBits * (Len(a) - 1) + BitLenSmall(a[Len(a)])

BOdd(a) == a # <<>> /\ a[1] % 2 = 1

\* One quotient digit: the largest g in 0..Base-1 with d * g <= cur, for
\* cur < d * Base and d with its top limb >= Base / 2 (Knuth's estimate from
\* the leading limbs is then at most 2 too large).
BDigit(cur, d) ==
  LET L    == Len(d)
      ctop == IF Len(cur) > L THEN cur[L + 1] ELSE 0
      cnxt == IF Len(cur) >= L THEN cur[L] ELSE 0
      est  == Min((ctop * Base + cnxt) \div d[L], Base - 1)
  IN  IF BCmp(BMulSmall(d, est), cur) <= 0 THEN est
      ELSE IF BCmp(BMulSmall(d, est - 1), cur) <= 0 THEN est - 1
      ELSE est - 2

\* One step of schoolbook long division by d: hi is the quotient and
\* remainder of the limbs above limb x.
BDivStep(x, hi, d) ==
  Val({Val({[q |-> <<g>> \o hi.q, r |-> BSub(cur, BMulSmall(d, g))] :
              g \in {BDigit(cur, d)}}) :
         cur \in {BNorm(<<x>> \o hi.r)}})

\* Schoolbook long division of a by d, from the most significant limb of a:
\* the top Len(d) - 1 limbs of a are less than d and start as the remainder.
RECURSIVE BDivLimbs(_, _)
BDivLimbs(a, d) ==
  IF Len(a) < Len(d) THEN [q |-> <<>>, r |-> BNorm(a)]
  ELSE Val({BDivStep(a[1], hi, d) : hi \in {BDivLimbs(Tail(a), d)}})

\* quotient and remainder of n by d > 0
BDivMod(n, d) ==
  Val({Val({[q |-> BNorm(qr.q), r |-> BShr(qr.r, sh)] :
              qr \in {BDivLimbs(BShl(n, sh), BShl(d, sh))}}) :
         sh \in {LimbBits - BitLenSmall(d[Len(d)])}})

(***************************************************************************)
(* IEEE-754 binary64.                                                      *)
(***************************************************************************)
MantBits == 53
FZero == [m |-> <<>>, e |-> 0]

\* The float nearest to (or, for mode "down"/"up", next below/above) the
\* exact value (n / d) * 2^e, n and d naturals, d > 0.
\* The exact value (qr.q + f) * 2^e, where 0 <= f < 1 and f # 0 exactly if
\* qr.r # 0, rounded to MantBits bits; qr.q has more than MantBits bits.
\* Whether the bits cut off make the kept ones round up: low is the bits cut
\* off, cmp compares them with half a unit of the last kept bit, stk tells
\* that something nonzero lies below them.
RoundsUp(top, low, cmp, stk, mode) ==
  CASE mode = "down" -> FALSE
    [] mode = "up"   -> low # <<>> \/ stk
    [] OTHER         -> cmp > 0 \/ (cmp = 0 /\ (stk \/ BOdd(top)))
\* The float m * 2^e of a mantissa of MantBits or MantBits + 1 bits.
RoundPack(m, e) ==
  IF BBitLen(m) > MantBits THEN [m |-> BShr(m, 1), e |-> e + 1]
  ELSE [m |-> m, e |-> e]
\* The k low bits of qr.q are cut off.
RoundCut(qr, k, e, mode) ==
  Val({RoundPack(IF RoundsUp(top, low, BCmp(low, BShl(<<1>>, k - 1)),
                             qr.r # <<>>, mode)
                 THEN BAdd(top, <<1>>) ELSE top,
                 e + k) :
         top \in {BShr(qr.q, k)}, low \in {BLow(qr.q, k)}})
RoundQuot(qr, e, mode) == RoundCut(qr, BBitLen(qr.q) - MantBits, e, mode)
\* n and d scaled so that the quotient has at least MantBits + 2 bits.
RoundScaled(n, d, s, e, mode) ==
  IF d = <<1>>
  THEN RoundQuot([q |-> BShl(n, s), r |-> <<>>], e - s, mode)
  ELSE Val({RoundQuot(qr, e - s, mode) : qr \in {BDivMod(BShl(n, s), d)}})
Round(n, d, e, mode) ==
  IF n = <<>> THEN FZero
  ELSE RoundScaled(n, d,
                   Max(0, (MantBits + 2) - BBitLen(n)
                            + (IF d = <<1>> THEN 0 ELSE BBitLen(d))),
                   e, mode)

\* float(n) of a Python int n >= 0
I2F(n) == Round(BFromInt(n), <<1>>, 0, "nearest")
\* a / b of two Python ints (true division, correctly rounded), b > 0
IntTrueDiv(a, b) == Round(BFromInt(a), BFromInt(b), 0, "nearest")
\* x * y, x / y, x + y of two floats, y # 0.0 in x / y
FMul(x, y) ==
  Val({Round(BMul(a.m, b.m), <<1>>, a.e + b.e, "nearest") : a \in {x}, b \in {y}})
FDiv(x, y) ==
  Val({Round(a.m, b.m, a.e - b.e, "nearest") : a \in {x}, b \in {y}})
FAddAt(a, b, e) ==
  Round(BAdd(BShl(a.m, a.e - e), BShl(b.m, b.e - e)), <<1>>, e, "nearest")
FAddVal(a, b) ==
  IF a.m = <<>> THEN b
  ELSE IF b.m = <<>> THEN a
  ELSE FAddAt(a, b, Min(a.e, b.e))
FAdd(x, y) == Val({FAddVal(a, b) : a \in {x}, b \in {y}})
\* A decimal literal num/den of the source text: the float nearest to it.
Dec(num, den) == Round(BFromInt(num), BFromInt(den), 0, "nearest")

\* x ** 2 of a float x.  CPython calls the C library's pow(x, 2.0), which is
\* not required to round correctly: the result is one of the two floats
\* that enclose the exact square (the exact square itself when it is a
\* float).  libmRound, "down" or "up", is the direction the library takes.
FPow2(x, libmRound) ==
  Val({Round(BMul(a.m, a.m), <<1>>, 2 * a.e, libmRound) : a \in {x}})
PowRoundings == {"down", "up"}

(***************************************************************************)
(* format(x, '.3f') of a float x: the exact value of x times 1000, rounded *)
(* to an integer with ties to even, written with three decimals.  An int   *)
(* is converted with float() first: format(n, '.3f') is Format3f(I2F(n)).  *)
(* A string built at run time is a sequence of pieces (one-character       *)
(* strings here).                                                          *)
(***************************************************************************)
Digit == <<"0", "1", "2", "3", "4", "5", "6", "7", "8", "9">>
RECURSIVE DecStr(_)
DecStr(n) ==
  IF n < 10 THEN <<Digit[n + 1]>> ELSE DecStr(n \div 10) \o <<Digit[(n % 10) + 1]>>

\* n * 2^(-k), k > 0, rounded to an integer with ties to even.
RoundHalfEven(n, k) ==
  Val({IF cmp > 0 \/ (cmp = 0 /\ q % 2 = 1) THEN q + 1 ELSE q :
         q \in {BToInt(BShr(n, k))},
         cmp \in {BCmp(BLow(n, k), BShl(<<1>>, k - 1))}})
Thousandths(x) ==
  IF x.e >= 0 THEN BToInt(BShl(BMulSmall(x.m, 1000), x.e))
  ELSE RoundHalfEven(BMulSmall(x.m, 1000), -x.e)

Format3f(x) ==
  Val({DecStr(t \div 1000) \o <<".">>
         \o <<Digit[((t \div 100) % 10) + 1], Digit[((t \div 10) % 10) + 1],
              Digit[(t % 10) + 1]>> :
         t \in {Thousandths(x)}})

(***************************************************************************)
(* class Training and its subclasses.  An instance is a record of its      *)
(* class name (kind) and its attributes.                                   *)
(***************************************************************************)
M_IN_KM == 1000
H_IN_MIN == 60
Training_LEN_STEP == Dec(65, 100)
CALORIES_MEAN_SPEED_MULTIPLIER == 18
CALORIES_MEAN_SPEED_SHIFT == Dec(179, 100)
COEF_1 == Dec(35, 1000)
COEF_2 == Dec(29, 1000)
KM_H_IN_M_S == Dec(278, 1000)
CM_IN_M == 100
Swimming_LEN_STEP == Dec(138, 100)
NUMBER_1 == Dec(11, 10)
NUMBER_2 == 2

None == [kind |-> "NoneType"]

\* __init__ of each class: the positional arguments bound to the attributes.
Running_init(action, duration, weight) ==
  [kind |-> "Running", action |-> action, duration |-> duration,
   weight |-> weight]
SportsWalking_init(action, duration, weight, height) ==
  [kind |-> "SportsWalking", action |-> action, duration |-> duration,
   weight |-> weight, height |-> height]
\* Swimming.__init__ with the two pool attributes assigned crosswise.
Swimming_init_swapped(action, duration, weight, length_pool, count_pool) ==
  [kind |-> "Swimming", action |-> action, duration |-> duration,
   weight |-> weight, length_pool |-> count_pool, count_pool |-> length_pool]
Swimming_init(action, duration, weight, length_pool, count_pool) ==
  [kind |-> "Swimming", action |-> action, duration |-> duration,
   weight |-> weight, length_pool |-> length_pool, count_pool |-> count_pool]

\* self.LEN_STEP: the class attribute, looked up in the class of self first.
LEN_STEP(self) ==
  IF self.kind = "Swimming" THEN Swimming_LEN_STEP ELSE Training_LEN_STEP

get_distance(self) ==
  FDiv(FMul(I2F(self.action), LEN_STEP(self)), I2F(M_IN_KM))

Training_get_mean_speed(self) == FDiv(get_distance(self), I2F(self.duration))

\* Swimming's speed from the strokes, as if the method were not overridden.
Swimming_get_mean_speed_strokes(self) ==
  FDiv(get_distance(self), I2F(self.duration))
Swimming_get_mean_speed(self) ==
  FDiv(IntTrueDiv(self.length_pool * self.count_pool, M_IN_KM),
       I2F(self.duration))

\* Method lookup that finds the method of Training for every class.
get_mean_speed_inherited(self) == Training_get_mean_speed(self)

\* self.get_mean_speed(): Swimming overrides the method of Training.
get_mean_speed(self) ==
  IF self.kind = "Swimming" THEN Swimming_get_mean_speed(self)
  ELSE Training_get_mean_speed(self)

\* The Running formula with the shift added to the speed before the
\* multiplication: 18 * (speed + 1.79).
Running_get_spent_calories_grouped(self) ==
  FMul(FDiv(FMul(FMul(I2F(CALORIES_MEAN_SPEED_MULTIPLIER),
                      FAdd(get_mean_speed(self), CALORIES_MEAN_SPEED_SHIFT)),
                 I2F(self.weight)),
            I2F(M_IN_KM)),
       I2F(self.duration * H_IN_MIN))
Running_get_spent_calories(self) ==
  FMul(FDiv(FMul(FAdd(FMul(I2F(CALORIES_MEAN_SPEED_MULTIPLIER),
                           get_mean_speed(self)),
                      CALORIES_MEAN_SPEED_SHIFT),
                 I2F(self.weight)),
            I2F(M_IN_KM)),
       I2F(self.duration * H_IN_MIN))

SportsWalking_get_spent_calories(self, libmRound) ==
  FMul(FAdd(FMul(COEF_1, I2F(self.weight)),
            FMul(FMul(FDiv(FPow2(FMul(get_mean_speed(self), KM_H_IN_M_S),
                                 libmRound),
                           IntTrueDiv(self.height, CM_IN_M)),
                      COEF_2),
                 I2F(self.weight))),
       I2F(self.duration * H_IN_MIN))

Swimming_get_spent_calories(self) ==
  FMul(FMul(FMul(FAdd(get_mean_speed(self), NUMBER_1), I2F(NUMBER_2)),
            I2F(self.weight)),
       I2F(self.duration))

\* Training.get_spent_calories raises; every subclass overrides it.
NotImplementedError == [exc |-> "NotImplementedError"]
get_spent_calories(self, libmRound) ==
  CASE self.kind = "Running"       -> Running_get_spent_calories(self)
    [] self.kind = "SportsWalking" -> SportsWalking_get_spent_calories(self, libmRound)
    [] self.kind = "Swimming"      -> Swimming_get_spent_calories(self)
    [] OTHER                       -> NotImplementedError

\* The InfoMessage dataclass: its five fields in declaration order.
InfoMessage(training_type, duration, distance, speed, calories) ==
  [training_type |-> training_type, duration |-> duration,
   distance |-> distance, speed |-> speed, calories |-> calories]

show_training_info(self, libmRound) ==
  InfoMessage(self.kind, self.duration, get_distance(self),
              get_mean_speed(self), get_spent_calories(self, libmRound))

(***************************************************************************)
(* InfoMessage: the message text.  A line of output is the sequence of     *)
(* the pieces it is concatenated from: the literal text before and after   *)
(* each replacement field, and the characters written for the field.       *)
(***************************************************************************)
\* homework.py: the class attribute TEXT, five adjacent literals, each a
\* label, a replacement field and the text after it.
TEXT ==
  <<"Tip trenirovki: ", "{}", "; ",
    "Dlitelnost: ", "{:.3f}", " ch.; ",
    "Distantsiya: ", "{:.3f}", " km; ",
    "Sr. skorost: ", "{:.3f}", " km/ch; ",
    "Potracheno kkal: ", "{:.3f}", ".">>

\* str.format: each replacement field takes the next positional argument;
\* "{}" writes a str as it is, "{:.3f}" writes a number with three decimals.
RECURSIVE StrFormat(_, _)
StrFormat(text, args) ==
  IF text = <<>> THEN <<>>
  ELSE IF Head(text) = "{}"
       THEN <<Head(args)>> \o StrFormat(Tail(text), Tail(args))
  ELSE IF Head(text) = "{:.3f}"
       THEN Format3f(Head(args)) \o StrFormat(Tail(text), Tail(args))
  ELSE <<Head(text)>> \o StrFormat(Tail(text), args)

\* homework.py InfoMessage.get_message: TEXT.format(*asdict(self).values()),
\* the field values in declaration order; duration is the int of the data.
get_message(self) ==
  StrFormat(TEXT, <<self.training_type, I2F(self.duration), self.distance,
                    self.speed, self.calories>>)

\* oop_refactor.py InfoMessage.__str__: the f-string of five literals.
InfoMessage_str(self) ==
  <<"Tip trenirovki: ", self.training_type, "; ">>
    \o <<"Dlitelnost: ">> \o Format3f(I2F(self.duration)) \o <<" ch.; ">>
    \o <<"Distantsiya: ">> \o Format3f(self.distance) \o <<" km; ">>
    \o <<"Sr. skorost: ">> \o Format3f(self.speed) \o <<" km/ch; ">>
    \o <<"Potracheno kkal: ">> \o Format3f(self.calories) \o <<".">>

\* The line both read_package functions print for an unknown workout type.
UNKNOWN_TYPE_MESSAGE ==
  <<"Dannyi tip trenirovki neizvesten. ",
    "Poprobuite pokhodit, poplavat ili beg.">>

(***************************************************************************)
(* read_package.                                                           *)
(***************************************************************************)
\* The dict workout_code: type code -> class.
workout_code ==
  [code \in {"SWM", "RUN", "WLK"} |->
     CASE code = "SWM" -> "Swimming"
       [] code = "RUN" -> "Running"
       [] code = "WLK" -> "SportsWalking"]

\* The number of positional arguments __init__ of the class takes.
InitArity(cls) ==
  CASE cls = "Running"       -> 3
    [] cls = "SportsWalking" -> 4
    [] cls = "Swimming"      -> 5

\* A constructor that takes any number of arguments: the missing ones default
\* to 1, the surplus ones are ignored.
ConstructLenient(cls, data) ==
  LET arg(i) == IF i <= Len(data) THEN data[i] ELSE 1
  IN  [exc |-> "None",
       val |-> CASE cls = "Running" ->
                      [kind |-> cls, action |-> arg(1), duration |-> arg(2),
                       weight |-> arg(3)]
                 [] cls = "SportsWalking" ->
                      [kind |-> cls, action |-> arg(1), duration |-> arg(2),
                       weight |-> arg(3), height |-> arg(4)]
                 [] cls = "Swimming" ->
                      [kind |-> cls, action |-> arg(1), duration |-> arg(2),
                       weight |-> arg(3), length_pool |-> arg(4),
                       count_pool |-> arg(5)]]

\* cls(*data): a call with too few or too many arguments raises TypeError
\* before __init__ runs.
Construct(cls, data) ==
  IF Len(data) # InitArity(cls) THEN [exc |-> "TypeError", val |-> None]
  ELSE [exc |-> "None",
        val |-> CASE cls = "Running" ->
                       Running_init(data[1], data[2], data[3])
                  [] cls = "SportsWalking" ->
                       SportsWalking_init(data[1], data[2], data[3], data[4])
                  [] cls = "Swimming" ->
                       Swimming_init(data[1], data[2], data[3], data[4], data[5])]

\* homework.py read_package: what it returns (val), prints (printed) and
\* raises (exc).  With an unknown type it prints and returns None.
HW_read_package(workout_type, data) ==
  IF workout_type \in DOMAIN workout_code
  THEN LET c == Construct(workout_code[workout_type], data)
       IN  [exc |-> c.exc, val |-> c.val, printed |-> <<>>]
  ELSE [exc |-> "None", val |-> None, printed |-> <<UNKNOWN_TYPE_MESSAGE>>]

\* homework.py main(training): None has no show_training_info.
HW_main(training, libmRound) ==
  IF training = None
  THEN [exc |-> "AttributeError", info |-> None, printed |-> <<>>]
  ELSE Val({[exc |-> "None", info |-> info, printed |-> <<get_message(info)>>] :
              info \in {show_training_info(training, libmRound)}})

\* read_package without its else branch: an unknown type is skipped silently.
RF_read_package_silent(workout_type, data, libmRound) ==
  IF workout_type \in DOMAIN workout_code
  THEN LET c == Construct(workout_code[workout_type], data)
       IN  IF c.exc # "None"
           THEN [exc |-> c.exc, training |-> None, info |-> None,
                 printed |-> <<>>]
           ELSE Val({[exc |-> "None", training |-> c.val, info |-> info,
                      printed |-> <<InfoMessage_str(info)>>] :
                       info \in {show_training_info(c.val, libmRound)}})
  ELSE [exc |-> "None", training |-> None, info |-> None, printed |-> <<>>]

\* oop_refactor.py read_package: constructs, summarizes and prints.
RF_read_package(workout_type, data, libmRound) ==
  IF workout_type \in DOMAIN workout_code
  THEN LET c == Construct(workout_code[workout_type], data)
       IN  IF c.exc # "None"
           THEN [exc |-> c.exc, training |-> None, info |-> None,
                 printed |-> <<>>]
           ELSE Val({[exc |-> "None", training |-> c.val, info |-> info,
                      printed |-> <<InfoMessage_str(info)>>] :
                       info \in {show_training_info(c.val, libmRound)}})
  ELSE [exc |-> "None", training |-> None, info |-> None,
        printed |-> <<UNKNOWN_TYPE_MESSAGE>>]

(***************************************************************************)
(* Bounds and inputs.                                                      *)
(***************************************************************************)
MaxBatch == 2
MaxDuration == 3
MaxCalls == 2

\* The sensor data of the three sample packages of both sources, and data of
\* two and of three other values.
SampleData == {<<720, 1, 80, 25, 40>>, <<15000, 1, 75>>, <<9000, 1, 75, 180>>}
Datas == SampleData \cup {<<15000, 1>>, <<3, 3, 80>>}
\* The three type codes and one that is unknown.
Codes == {"SWM", "RUN", "WLK", "XYZ"}
\* A package: a type code with data of the right or of a wrong length.
Packages == {<<code, data>> : code \in Codes, data \in Datas}
Batches == UNION {[1..n -> Packages] : n \in 0..MaxBatch}

Recognized(p) == p[1] \in DOMAIN workout_code
WellFormed(p) == Recognized(p) /\ Len(p[2]) = InitArity(workout_code[p[1]])
Mismatched(p) == Recognized(p) /\ ~WellFormed(p)

\* The attribute values the calculator claims are checked on.
Actions == {0, 3, 720, 9000, 15000}
Durations == 1..MaxDuration
Weights == {75, 80}
Heights == {180}
PoolLengths == {25}
PoolCounts == {40, 41}
Calculators ==
  {Running_init(a, d, w) : a \in Actions, d \in Durations, w \in Weights}
    \cup {SportsWalking_init(a, d, w, h) :
            a \in Actions, d \in Durations, w \in Weights, h \in Heights}
    \cup {Swimming_init(a, d, w, l, c) :
            a \in Actions, d \in Durations, w \in Weights,
            l \in PoolLengths, c \in PoolCounts}

(***************************************************************************)
(* State.                                                                  *)
(***************************************************************************)
VARIABLES
  batch,       \* packages: the batch both drivers are given
  libm,        \* the rounding direction of the C library's pow in this run
  h_i,         \* homework.py __main__: index of the package of the iteration
  h_pc,        \*   "read_package", "main", "done" or "raised"
  h_training,  \*   the variable training
  h_info,      \*   main's local info
  h_out,       \*   the lines written to standard output
  h_exc,       \*   the exception that ended the run, or "None"
  r_i,         \* oop_refactor.py main: index of the package being read
  r_pc,        \*   "read_package", "done" or "raised"
  r_training,  \*   read_package's local training
  r_info,      \*   read_package's local info
  r_out,       \*   the lines written to standard output
  r_exc,       \*   the exception that ended the run, or "None"
  calc,        \* a Training instance whose methods are called directly
  calc0,       \*   the instance as constructed
  ret,         \*   the value the last get_* call returned
  infos        \*   the InfoMessages show_training_info returned, in order

hvars == <<h_i, h_pc, h_training, h_info, h_out, h_exc>>
rvars == <<r_i, r_pc, r_training, r_info, r_out, r_exc>>
cvars == <<calc, calc0, ret, infos>>
vars == <<batch, libm, hvars, rvars, cvars>>

\* pow is called only for SportsWalking; in a run that never calls it the
\* direction is immaterial and "down" stands for both.
LibmChoices(usesPow) == IF usesPow THEN PowRoundings ELSE {"down"}

(***************************************************************************)
(* The two drivers on one batch: first homework.py, then oop_refactor.py.  *)
(* They share no state, so the order of their steps is immaterial.         *)
(***************************************************************************)
Init ==
  /\ batch \in Batches
  /\ libm \in LibmChoices(\E i \in DOMAIN batch :
                            WellFormed(batch[i]) /\ batch[i][1] = "WLK")
  /\ h_i = 1 /\ h_pc = (IF batch = <<>> THEN "done" ELSE "read_package")
  /\ h_training = None /\ h_info = None /\ h_out = <<>> /\ h_exc = "None"
  /\ r_i = 1 /\ r_pc = (IF batch = <<>> THEN "done" ELSE "read_package")
  /\ r_training = None /\ r_info = None /\ r_out = <<>> /\ r_exc = "None"
  /\ calc = None /\ calc0 = None /\ ret = None /\ infos = <<>>

\* homework.py line 167: training = read_package(workout_type, data)
HW_ReadPackageStep ==
  /\ h_pc = "read_package"
  /\ \E res \in {HW_read_package(batch[h_i][1], batch[h_i][2])} :
         IF res.exc # "None"
         THEN /\ h_exc' = res.exc
              /\ h_pc' = "raised"
              /\ UNCHANGED <<h_i, h_training, h_info, h_out>>
         ELSE /\ h_training' = res.val
              /\ h_out' = h_out \o res.printed
              /\ h_pc' = "main"
              /\ UNCHANGED <<h_i, h_info, h_exc>>
  /\ UNCHANGED <<batch, libm, rvars, cvars>>

\* homework.py line 168: main(training), then the next iteration
HW_MainStep ==
  /\ h_pc = "main"
  /\ \E res \in {HW_main(h_training, libm)} :
         IF res.exc # "None"
         THEN /\ h_exc' = res.exc
              /\ h_pc' = "raised"
              /\ UNCHANGED <<h_i, h_training, h_info, h_out>>
         ELSE /\ h_info' = res.info
              /\ h_out' = h_out \o res.printed
              /\ h_i' = h_i + 1
              /\ h_pc' = (IF h_i = Len(batch) THEN "done" ELSE "read_package")
              /\ UNCHANGED <<h_training, h_exc>>
  /\ UNCHANGED <<batch, libm, rvars, cvars>>

\* oop_refactor.py line 160: one read_package(*package) of the comprehension
RF_ReadPackageStep ==
  /\ h_pc \in {"done", "raised"}
  /\ r_pc = "read_package"
  /\ \E res \in {RF_read_package(batch[r_i][1], batch[r_i][2], libm)} :
         IF res.exc # "None"
         THEN /\ r_exc' = res.exc
              /\ r_pc' = "raised"
              /\ UNCHANGED <<r_i, r_training, r_info, r_out>>
         ELSE /\ r_training' = res.training
              /\ r_info' = res.info
              /\ r_out' = r_out \o res.printed
              /\ r_i' = r_i + 1
              /\ r_pc' = (IF r_i = Len(batch) THEN "done" ELSE "read_package")
              /\ UNCHANGED r_exc
  /\ UNCHANGED <<batch, libm, hvars, cvars>>

Next == HW_ReadPackageStep \/ HW_MainStep \/ RF_ReadPackageStep
Spec == Init /\ [][Next]_vars

(***************************************************************************)
(* The methods of one instance, called in any order.                       *)
(***************************************************************************)
CalcInit ==
  /\ calc \in Calculators
  /\ calc0 = calc
  /\ libm \in LibmChoices(calc.kind = "SportsWalking")
  /\ ret = None /\ infos = <<>>
  /\ batch = <<>>
  /\ h_i = 1 /\ h_pc = "done"
  /\ h_training = None /\ h_info = None /\ h_out = <<>> /\ h_exc = "None"
  /\ r_i = 1 /\ r_pc = "done"
  /\ r_training = None /\ r_info = None /\ r_out = <<>> /\ r_exc = "None"

\* The methods read the attributes of self and assign none of them.
Call_get_distance ==
  /\ ret' = get_distance(calc)
  /\ UNCHANGED <<calc, calc0, infos, batch, libm, hvars, rvars>>
Call_get_mean_speed ==
  /\ ret' = get_mean_speed(calc)
  /\ UNCHANGED <<calc, calc0, infos, batch, libm, hvars, rvars>>
\* get_spent_calories converting self.duration to minutes in place.
Call_get_spent_calories_inplace ==
  /\ calc.duration < H_IN_MIN
  /\ calc' = [calc EXCEPT !.duration = @ * H_IN_MIN]
  /\ ret' = get_spent_calories(calc', libm)
  /\ UNCHANGED <<calc0, infos, batch, libm, hvars, rvars>>
Call_get_spent_calories ==
  /\ ret' = get_spent_calories(calc, libm)
  /\ UNCHANGED <<calc, calc0, infos, batch, libm, hvars, rvars>>
Call_show_training_info ==
  /\ Len(infos) < MaxCalls
  /\ infos' = Append(infos, show_training_info(calc, libm))
  /\ UNCHANGED <<calc, calc0, ret, batch, libm, hvars, rvars>>

CalcNext ==
  \/ Call_get_distance
  \/ Call_get_mean_speed
  \/ Call_get_spent_calories
  \/ Call_show_training_info
CalcSpec == CalcInit /\ [][CalcNext]_vars
(***************************************************************************)
(* Properties of the drivers.                                              *)
(***************************************************************************)
Ended == {"done", "raised"}
BothEnded == h_pc \in Ended /\ r_pc \in Ended

\* The class the specification names for a type code.
VariantOf(code) ==
  CASE code = "SWM" -> "Swimming"
    [] code = "RUN" -> "Running"
    [] code = "WLK" -> "SportsWalking"

\* The line each program writes for a package with a recognized code and
\* data of the right length.
HW_Line(p) ==
  get_message(show_training_info(Construct(workout_code[p[1]], p[2]).val, libm))
RF_Line(p) ==
  InfoMessage_str(show_training_info(Construct(workout_code[p[1]], p[2]).val, libm))

\* C1: for an entry with an unknown type code, read_package constructs no
\* calculator and writes exactly the warning line, the caller does not
\* crash, and no summarize or report step yields a record or a line for it.
C1_UnknownCodeRecovered ==
  [][/\ (h_pc = "read_package" /\ ~Recognized(batch[h_i]))
          => /\ h_training' = None
             /\ h_out' = Append(h_out, UNKNOWN_TYPE_MESSAGE)
             /\ h_exc' = "None"
     /\ (h_pc = "main" /\ ~Recognized(batch[h_i]))
          => /\ h_exc' = "None"
             /\ h_out' = h_out
             /\ h_info' = h_info
     /\ (r_pc = "read_package" /\ h_pc \in Ended /\ ~Recognized(batch[r_i]))
          => /\ r_training' = None /\ r_info' = None
             /\ r_out' = Append(r_out, UNKNOWN_TYPE_MESSAGE)
             /\ r_exc' = "None"]_vars

\* C2: when both programs have ended, every entry with a recognized code and
\* data of the right length that comes after an entry with an unknown code
\* (and after no entry with an argument mismatch) has its formatted line in
\* the output.
C2_ContinuesAfterUnknown ==
  BothEnded =>
    \A j \in DOMAIN batch :
      ( /\ WellFormed(batch[j])
        /\ \E i \in 1..(j - 1) : ~Recognized(batch[i])
        /\ \A k \in 1..(j - 1) : ~Mismatched(batch[k]) )
      => /\ \E n \in DOMAIN h_out : h_out[n] = HW_Line(batch[j])
         /\ \E n \in DOMAIN r_out : r_out[n] = RF_Line(batch[j])

\* C3: for an entry with a recognized code and data of the wrong length,
\* read_package raises TypeError to its caller, which ends the run; no
\* calculator, no record and no line is produced for the entry, and nothing
\* is done after the error.
C3_ArgumentMismatch ==
  [][/\ (h_pc = "read_package" /\ Mismatched(batch[h_i]))
          => /\ h_exc' = "TypeError" /\ h_pc' = "raised"
             /\ UNCHANGED <<h_training, h_info, h_out>>
     /\ (r_pc = "read_package" /\ h_pc \in Ended /\ Mismatched(batch[r_i]))
          => /\ r_exc' = "TypeError" /\ r_pc' = "raised"
             /\ UNCHANGED <<r_training, r_info, r_out>>
     /\ h_pc = "raised" => UNCHANGED hvars
     /\ r_pc = "raised" => UNCHANGED rvars]_vars
C3_Witness ==
  /\ h_exc = "TypeError" /\ r_exc = "TypeError"
  /\ h_i = 2 /\ r_i = 2 /\ Len(h_out) = 1 /\ Len(r_out) = 1

\* The calculator t is of the variant of the package's code and has the
\* values of its data as attributes, in order.
BoundPositionally(t, p) ==
  /\ t.kind = VariantOf(p[1])
  /\ t.action = p[2][1] /\ t.duration = p[2][2] /\ t.weight = p[2][3]
  /\ p[1] = "RUN" => DOMAIN t = {"kind", "action", "duration", "weight"}
  /\ p[1] = "WLK" => /\ t.height = p[2][4]
                     /\ DOMAIN t = {"kind", "action", "duration", "weight",
                                    "height"}
  /\ p[1] = "SWM" => /\ t.length_pool = p[2][4] /\ t.count_pool = p[2][5]
                     /\ DOMAIN t = {"kind", "action", "duration", "weight",
                                    "length_pool", "count_pool"}
\* The record carries the variant's name and the second value of the data.
CarriesNameAndDuration(info, p) ==
  info.training_type = VariantOf(p[1]) /\ info.duration = p[2][2]

\* C4: for an entry with a recognized code and data of the right length the
\* calculator read_package constructs is of the mapped variant with the data
\* bound positionally, and its record carries the variant's name and the
\* second value of the data as duration.
C4_FactoryBinding ==
  /\ (h_pc = "main" /\ WellFormed(batch[h_i]))
       => BoundPositionally(h_training, batch[h_i])
  /\ (h_i > 1 /\ WellFormed(batch[h_i - 1]))
       => CarriesNameAndDuration(h_info, batch[h_i - 1])
  /\ (r_i > 1 /\ WellFormed(batch[r_i - 1]))
       => /\ BoundPositionally(r_training, batch[r_i - 1])
          /\ CarriesNameAndDuration(r_info, batch[r_i - 1])
C4_Witness ==
  /\ h_pc = "done" /\ r_pc = "done" /\ Len(batch) = 2
  /\ batch[1] = <<"SWM", <<720, 1, 80, 25, 40>>>>
  /\ batch[2] = <<"WLK", <<9000, 1, 75, 180>>>>
  /\ r_training.height = 180

\* The lines of the first n entries of the batch, in input order: the
\* formatted line of an entry with a recognized code, the warning line of
\* one with an unknown code.
HW_LinesOfFirst(n) ==
  [i \in 1..n |-> IF Recognized(batch[i]) THEN HW_Line(batch[i])
                  ELSE UNKNOWN_TYPE_MESSAGE]
RF_LinesOfFirst(n) ==
  [i \in 1..n |-> IF Recognized(batch[i]) THEN RF_Line(batch[i])
                  ELSE UNKNOWN_TYPE_MESSAGE]
\* The indices of the entries with a recognized code and the right length.
WellFormedIndices ==
  SelectSeq([i \in 1..Len(batch) |-> i], LAMBDA i : WellFormed(batch[i]))
FormattedLines(out) == SelectSeq(out, LAMBDA l : l # UNKNOWN_TYPE_MESSAGE)

\* C5 as stated: for every batch, when the programs have ended, the
\* formatted lines written are exactly one per entry with a recognized code
\* and data of the right length, in input order.
C5_OneLinePerEntry ==
  BothEnded =>
    /\ FormattedLines(h_out)
         = [k \in 1..Len(WellFormedIndices) |->
              HW_Line(batch[WellFormedIndices[k]])]
    /\ FormattedLines(r_out)
         = [k \in 1..Len(WellFormedIndices) |->
              RF_Line(batch[WellFormedIndices[k]])]

\* C5 amended: at every moment the output of each program is exactly the
\* lines of the entries processed so far, in input order (in homework.py
\* the warning of the current entry is written by read_package before main
\* is called); a run that completes normally has processed every entry, and
\* a run ended by an error has written nothing for the entry that raised
\* and for the entries after it.
C5_LinesOfProcessedPrefix ==
  /\ h_out = HW_LinesOfFirst(h_i - 1)
               \o (IF h_pc \in {"main", "raised"} /\ ~Recognized(batch[h_i])
                   THEN <<UNKNOWN_TYPE_MESSAGE>> ELSE <<>>)
  /\ r_out = RF_LinesOfFirst(r_i - 1)
  /\ h_pc = "done" => h_i = Len(batch) + 1
  /\ r_pc = "done" => r_i = Len(batch) + 1
  /\ h_pc = "raised" => h_i <= Len(batch) /\ h_exc # "None"
  /\ r_pc = "raised" => r_i <= Len(batch) /\ r_exc # "None"
C5_Witness ==
  /\ BothEnded /\ Len(batch) = 2
  /\ Mismatched(batch[1]) /\ WellFormed(batch[2])
  /\ h_out = <<>> /\ r_out = <<>>

\* C10: for every batch, when both programs have ended they have written the
\* same lines and ended the same way.
C10_Equivalent ==
  BothEnded => h_out = r_out /\ h_exc = r_exc /\ h_pc = r_pc

(***************************************************************************)
(* Properties of the calculators (under CalcSpec).                         *)
(***************************************************************************)
\* The decimal digits of a number as format(x, '.3f') writes them.
Chars797_805 == <<"7", "9", "7", ".", "8", "0", "5">>
Chars798_000 == <<"7", "9", "8", ".", "0", "0", "0">>

RunningSample == Running_init(15000, 1, 75)
SwimmingSample == Swimming_init(720, 1, 80, 25, 40)

\* (18 * speed + 1.79) * weight / 1000 * (duration * 60)
RunningCalories(speed, weight, duration) ==
  FMul(FDiv(FMul(FAdd(FMul(I2F(18), speed), Dec(179, 100)), I2F(weight)),
            I2F(1000)),
       I2F(duration * 60))
\* (length_pool * count_pool / 1000) / duration
PoolSpeed(length_pool, count_pool, duration) ==
  FDiv(IntTrueDiv(length_pool * count_pool, 1000), I2F(duration))
\* (speed + 1.1) * 2 * weight * duration
SwimmingCalories(speed, weight, duration) ==
  FMul(FMul(FMul(FAdd(speed, Dec(11, 10)), I2F(2)), I2F(weight)),
       I2F(duration))

\* C6 as stated: the record of Running(15000, 1, 75) has distance 9.75, mean
\* speed 9.75 and calories 798.0 to three decimal places.
C6_RunningSample798 ==
  (calc = RunningSample /\ infos # <<>>) =>
    /\ infos[1].distance = Dec(975, 100)
    /\ infos[1].speed = Dec(975, 100)
    /\ Format3f(infos[1].calories) = Chars798_000

\* C6 amended: the record of Running(15000, 1, 75) has distance 9.75, mean
\* speed 9.75 and calories 797.805 to three decimal places, and the calories
\* of every Running record are (18 * speed + 1.79) * weight / 1000 *
\* (duration * 60) of the speed in the record.
C6_RunningSample ==
  /\ (calc = RunningSample /\ infos # <<>>) =>
       /\ infos[1].distance = Dec(975, 100)
       /\ infos[1].speed = Dec(975, 100)
       /\ Format3f(infos[1].calories) = Chars797_805
  /\ calc.kind = "Running" =>
       \A k \in DOMAIN infos :
         infos[k].calories
           = RunningCalories(infos[k].speed, calc.weight, calc.duration)
C6_Witness == calc = RunningSample /\ Len(infos) = 1 /\ ret = Dec(975, 100)

\* C7: the speed in every Swimming record is the pool-based one, the
\* calories are (speed + 1.1) * 2 * weight * duration of that speed, and for
\* Swimming(720, 1, 80, 25, 40) the speed is 1.0, which is not the
\* distance-based one, and the calories are 336.0.
C7_SwimmingPoolSpeed ==
  /\ calc.kind = "Swimming" =>
       \A k \in DOMAIN infos :
         /\ infos[k].speed
              = PoolSpeed(calc.length_pool, calc.count_pool, calc.duration)
         /\ infos[k].calories
              = SwimmingCalories(PoolSpeed(calc.length_pool, calc.count_pool,
                                           calc.duration),
                                 calc.weight, calc.duration)
  /\ (calc = SwimmingSample /\ infos # <<>>) =>
       /\ infos[1].speed = I2F(1)
       /\ infos[1].speed # FDiv(infos[1].distance, I2F(calc.duration))
       /\ infos[1].calories = I2F(336)
C7_Witness ==
  calc = SwimmingSample /\ Len(infos) = 1 /\ ret = I2F(336)

\* C8: the calculator has the attributes it was constructed with after any
\* calls of its methods, and all the records show_training_info returned
\* for it are identical.
C8_Idempotent ==
  /\ calc = calc0
  /\ \A i, j \in DOMAIN infos : infos[i] = infos[j]
C8_Witness ==
  /\ Len(infos) = MaxCalls /\ ret # None /\ calc.kind = "SportsWalking"

\* |x - y| <= x * 2^(-51) for floats x and y.
FClose(x, y) ==
  Val({BCmp(BShl(IF BCmp(a, b) >= 0 THEN BSub(a, b) ELSE BSub(b, a), 51), a)
         <= 0 :
         a \in {BShl(x.m, x.e - Min(x.e, y.e))},
         b \in {BShl(y.m, y.e - Min(x.e, y.e))}})

\* The record of the Swimming calculator that differs from calc in its
\* action only.
SwimmingWithAction(action) ==
  show_training_info([calc EXCEPT !.action = action], libm)
SwimmingActionOnlyDistance ==
  (calc.kind = "Swimming" /\ infos # <<>>) =>
    \A action \in Actions :
      /\ SwimmingWithAction(action).speed = infos[1].speed
      /\ SwimmingWithAction(action).calories = infos[1].calories

\* C9 as stated: the action of a Swimming calculator changes neither the
\* speed nor the calories of its record, and in every Running and
\* SportsWalking record distance = speed * duration.
C9_DistanceIsSpeedTimesDuration ==
  /\ SwimmingActionOnlyDistance
  /\ (calc.kind \in {"Running", "SportsWalking"} /\ infos # <<>>) =>
       infos[1].distance = FMul(infos[1].speed, I2F(calc.duration))

\* C9 amended: the action of a Swimming calculator changes neither the
\* speed nor the calories of its record, and in every Running and
\* SportsWalking record distance and speed * duration differ by at most the
\* rounding of the two float operations (a relative 2^(-51)); they are equal
\* when duration is 1.
C9_ActionOnlyDistance ==
  /\ SwimmingActionOnlyDistance
  /\ (calc.kind \in {"Running", "SportsWalking"} /\ infos # <<>>) =>
       /\ FClose(infos[1].distance,
                 FMul(infos[1].speed, I2F(calc.duration)))
       /\ calc.duration = 1 =>
            infos[1].distance = FMul(infos[1].speed, I2F(calc.duration))
\* A Swimming record whose distance is not speed * duration.
C9_Witness ==
  /\ calc.kind = "Swimming" /\ infos # <<>>
  /\ infos[1].distance # FMul(infos[1].speed, I2F(calc.duration))
  /\ ~FClose(infos[1].distance, FMul(infos[1].speed, I2F(calc.duration)))
====
